---- MODULE Spec2Model ----
(***************************************************************************)
(* Model of runner/runner.go: the ContainerRunner builder (WithPorts,      *)
(* WithImage, WithName, WithEnvironmentVariable, WithOptions) and its      *)
(* lifecycle (Start, Stop) against a container engine whose answers are    *)
(* nondeterministic.  Go strings are TLA+ strings, slices are sequences,   *)
(* maps are functions, a pointer is a sequence of zero or one element.     *)
(***************************************************************************)
EXTENDS Integers, Sequences, FiniteSets, TLC

VARIABLES
    DefaultContainerName,  \* package variable, set once when the process starts
    name, image, ports, env, exposedPorts, portBindings, opts, client, id,
    startPc,      \* position of the Start call in progress ("idle" if none)
    stopPc,       \* position of the Stop call in progress ("idle" if none)
    lastOp,       \* history: the most recent operation invoked on the runner
    calls,        \* history: the client-library calls made by that operation, in order
    result,       \* history: what that operation returned, if it is Start or Stop
    stepState,    \* history: runner fields after the last successful step of that operation
    createdOnce,  \* history: some create request of Start has succeeded
    startedOnce,  \* history: some Start call has returned success
    passedPorts,  \* history: every port number passed to WithPorts so far
    prevCall,     \* history: how the Start / Stop call before that operation returned
    createdId     \* history: the identifier answered by the latest successful create

fields == <<name, image, ports, env, exposedPorts, portBindings, opts, client, id>>
history == <<calls, result, lastOp, stepState, createdOnce, startedOnce, passedPorts,
             prevCall, createdId>>
vars == <<DefaultContainerName, fields, startPc, stopPc, history>>

---------------------------------------------------------------------------
(* Bounds of the model *)
MaxPorts == 2      \* longest r.ports list explored
MaxEnv == 2        \* longest r.env list explored
MaxLog == 4        \* longest shared log at which a concurrent call may still begin

(* Inputs *)
PortNumbers == {80, 27017}
PortArgs == {<<>>} \cup {<<p>> : p \in PortNumbers}
              \cup {<<p, q>> : p \in PortNumbers, q \in PortNumbers}
ImageNames == {"", "mongo", "docker.io/library/mongo", "quay.io/app", "netcat",
               "a.org/b", ".com", "x.co"}
Names == {"", "mongo", "x"}
EnvKeys == {"A", "B"}
EnvVals == {"1"}
Uuids == {"uuid-1", "uuid-2"}
ContainerIds == {"c1", "c2"}
SmallPortArgs == {<<27017>>}
SmallImageNames == {"mongo"}
SmallNames == {"", "mongo"}
SmallEnvKeys == {"A"}

---------------------------------------------------------------------------
(* Constants and pure helpers of the package *)
DefaultHostAddress == "127.0.0.1"
\* a suffix list without the suffix of the default registry
RegistryExtensionOptions_NoIo == <<".com", ".org", ".net">>

RegistryExtensionOptions == <<".com", ".io", ".org", ".net">>
Nil == <<>>                      \* the nil pointer, the nil error
Ref(v) == <<v>>                  \* a pointer to v, a non-nil error
ErrNoContainerId == [msg |-> "container id does not exist", wraps |-> Nil]
EngineErrors == {[msg |-> "refused", wraps |-> Nil], [msg |-> "conflict", wraps |-> Nil]}
Answers == {Nil} \cup {Ref(e) : e \in EngineErrors}   \* err == nil, or an engine error
Minute == 60
NoClient == "nil"
Client == "client"

\* a match of s at the end of str only
Contains_SuffixOnly(str, s) ==
    Len(s) <= Len(str) /\ SubSeq(str, Len(str) - Len(s) + 1, Len(str)) = s

\* strings.Contains(str, s): scan the start positions left to right
RECURSIVE ContainsFrom(_, _, _)
ContainsFrom(str, s, i) ==
    IF i + Len(s) - 1 > Len(str) THEN FALSE
    ELSE IF SubSeq(str, i, i + Len(s) - 1) = s THEN TRUE
    ELSE ContainsFrom(str, s, i + 1)
Contains(str, s) == ContainsFrom(str, s, 1)

\* the loop of substringContainedInSlice, from element k of substrs on
RECURSIVE SliceLoop(_, _, _)
SliceLoop(str, substrs, k) ==
    IF k > Len(substrs) THEN FALSE
    ELSE IF Contains(str, substrs[k]) THEN TRUE
    ELSE SliceLoop(str, substrs, k + 1)
substringContainedInSlice(str, substrs) == SliceLoop(str, substrs, 1)

\* strconv.Itoa: decimal digits, most significant first, "-" for negatives
Digit(d) == SubSeq("0123456789", d + 1, d + 1)
RECURSIVE Digits(_)
Digits(n) == IF n < 10 THEN Digit(n) ELSE Digits(n \div 10) \o Digit(n % 10)
Itoa(n) == IF n < 0 THEN "-" \o Digits(0 - n) ELSE Digits(n)

\* the error formatted with %v: the message is kept, the cause is not
Errorf_NoWrap(label, err) == [msg |-> label \o ": " \o err.msg, wraps |-> Nil]

\* fmt.Errorf(label + ": %w", err)
Errorf(label, err) == [msg |-> label \o ": " \o err.msg, wraps |-> Ref(err)]

\* an assignment that replaces the map by the single entry
MapSet_Fresh(m, k, v) == [x \in {k} |-> v]

\* m[k] = v on a Go map
MapSet(m, k, v) == [x \in DOMAIN m \cup {k} |-> IF x = k THEN v ELSE m[x]]

Runner == [name |-> name, image |-> image, ports |-> ports, env |-> env,
           exposedPorts |-> exposedPorts, portBindings |-> portBindings,
           opts |-> opts, client |-> client, id |-> id]

NoResult == [call |-> "none", kind |-> "none", err |-> Nil]
Idle == startPc = "idle" /\ stopPc = "idle"

---------------------------------------------------------------------------
(* NewContainerRunner, in a process whose package variables are initialised *)
\* a constructor that presets an identifier
NewContainerRunner_WithId ==
    [name |-> "", image |-> "", ports |-> <<>>, env |-> <<>>,
     exposedPorts |-> {}, portBindings |-> <<>>,
     opts |-> Ref([RemoveOnFinalization |-> TRUE]),
     client |-> NoClient, id |-> "c1"]

NewContainerRunner ==
    [name |-> "", image |-> "", ports |-> <<>>, env |-> <<>>,
     exposedPorts |-> {}, portBindings |-> <<>>,
     opts |-> Ref([RemoveOnFinalization |-> TRUE]),
     client |-> NoClient, id |-> ""]

Init ==
    /\ DefaultContainerName \in Uuids
    /\ name = NewContainerRunner.name
    /\ image = NewContainerRunner.image
    /\ ports = NewContainerRunner.ports
    /\ env = NewContainerRunner.env
    /\ exposedPorts = NewContainerRunner.exposedPorts
    /\ portBindings = NewContainerRunner.portBindings
    /\ opts = NewContainerRunner.opts
    /\ client = NewContainerRunner.client
    /\ id = NewContainerRunner.id
    /\ startPc = "idle"
    /\ stopPc = "idle"
    /\ calls = <<>>
    /\ result = NoResult
    /\ lastOp = [op |-> "NewContainerRunner", arg |-> Nil]
    /\ stepState = Runner
    /\ createdOnce = FALSE
    /\ startedOnce = FALSE
    /\ passedPorts = {}
    /\ prevCall = [call |-> "none", outcome |-> "none", id |-> ""]
    /\ createdId = ""

---------------------------------------------------------------------------
(* Builder calls *)

\* how the most recent operation ended, if it is a Start or Stop that has returned:
\* a Start by the failure of its start request, a Stop with success or an engine
\* error (so past its guard), or otherwise
Outcome ==
    [call |-> lastOp.op,
     outcome |-> IF lastOp.op = "Start"
                 THEN IF result.kind = "error" /\ Len(calls) = 4
                      THEN "ContainerStart" ELSE "other"
                 ELSE IF result.kind \in {"ok", "error"} /\ calls # <<>>
                      THEN "answered" ELSE "other",
     id |-> id]
Ended == \/ lastOp.op = "Start" /\ startPc = "idle"
         \/ lastOp.op = "Stop" /\ stopPc = "idle"
NextPrevCall == IF Ended THEN Outcome ELSE prevCall

\* what the history variables record of a builder call: it issues no request
BuilderCall(op, arg) ==
    /\ lastOp' = [op |-> op, arg |-> arg]
    /\ prevCall' = NextPrevCall
    /\ calls' = <<>>
    /\ result' = NoResult
    /\ stepState' = Runner'

\* the body of the loop of WithPorts, applied to ps[k..]
RECURSIVE PortsLoop(_, _, _)
PortsLoop(r, ps, k) ==
    IF k > Len(ps) THEN r
    ELSE LET port == Itoa(ps[k])
         IN PortsLoop([ports |-> Append(r.ports, port),
                       exposedPorts |-> r.exposedPorts \cup {port},
                       portBindings |-> MapSet(r.portBindings, port,
                            <<[HostIP |-> DefaultHostAddress, HostPort |-> port]>>)],
                      ps, k + 1)

WithPorts(ps) ==
    /\ Len(ports) + Len(ps) <= MaxPorts
    /\ LET r == PortsLoop([ports |-> ports, exposedPorts |-> exposedPorts,
                           portBindings |-> portBindings], ps, 1)
       IN /\ ports' = r.ports
          /\ exposedPorts' = r.exposedPorts
          /\ portBindings' = r.portBindings
    /\ passedPorts' = passedPorts \cup {ps[k] : k \in 1..Len(ps)}
    /\ UNCHANGED <<DefaultContainerName, name, image, env, opts, client, id,
                   startPc, stopPc, createdOnce, startedOnce, createdId>>
    /\ BuilderCall("WithPorts", ps)

WithImage(img) ==
    /\ image' = IF ~substringContainedInSlice(img, RegistryExtensionOptions)
                THEN "docker.io/library/" \o img
                ELSE img
    /\ UNCHANGED <<DefaultContainerName, name, ports, env, exposedPorts, portBindings,
                   opts, client, id, startPc, stopPc, createdOnce, startedOnce, passedPorts, createdId>>
    /\ BuilderCall("WithImage", img)

\* a default name generated by each call
WithName_FreshDefault(n) ==
    /\ IF Len(n) = 0 THEN name' \in Uuids ELSE name' = n
    /\ UNCHANGED <<DefaultContainerName, image, ports, env, exposedPorts, portBindings,
                   opts, client, id, startPc, stopPc, createdOnce, startedOnce, passedPorts, createdId>>
    /\ BuilderCall("WithName", n)

WithName(n) ==
    /\ name' = IF Len(n) = 0 THEN DefaultContainerName ELSE n
    /\ UNCHANGED <<DefaultContainerName, image, ports, env, exposedPorts, portBindings,
                   opts, client, id, startPc, stopPc, createdOnce, startedOnce, passedPorts, createdId>>
    /\ BuilderCall("WithName", n)

WithEnvironmentVariable(key, val) ==
    /\ Len(env) < MaxEnv
    /\ env' = Append(env, key \o "=" \o val)
    /\ UNCHANGED <<DefaultContainerName, name, image, ports, exposedPorts, portBindings,
                   opts, client, id, startPc, stopPc, createdOnce, startedOnce, passedPorts, createdId>>
    /\ BuilderCall("WithEnvironmentVariable", <<key, val>>)

\* a setter that ignores a nil argument
WithOptions_KeepOnNil(o) ==
    /\ opts' = IF o = Nil THEN opts ELSE o
    /\ UNCHANGED <<DefaultContainerName, name, image, ports, env, exposedPorts,
                   portBindings, client, id, startPc, stopPc, createdOnce, startedOnce,
                   passedPorts, createdId>>
    /\ BuilderCall("WithOptions", o)

WithOptions(o) ==
    /\ opts' = o
    /\ UNCHANGED <<DefaultContainerName, name, image, ports, env, exposedPorts,
                   portBindings, client, id, startPc, stopPc, createdOnce, startedOnce, passedPorts, createdId>>
    /\ BuilderCall("WithOptions", o)

OptionArgs == {Nil, Ref([RemoveOnFinalization |-> TRUE]),
               Ref([RemoveOnFinalization |-> FALSE])}

---------------------------------------------------------------------------
(* Start: one action per step; each request is answered by success (a nil   *)
(* error) or by any engine error, and is recorded in calls with its answer *)

Returned(call, err) == [call |-> call, kind |-> IF err = Nil THEN "ok" ELSE "error", err |-> err]
Panicked(call) == [call |-> call, kind |-> "panic", err |-> Nil]

\* the log a call starts with: empty, unless the other call is still in progress
SharedLog(otherPc) == IF otherPc = "idle" THEN <<>> ELSE calls

\* e.client, err = client.NewEnvClient(): the library returns a nil client with an error
StartNewEnvClient ==
    /\ startPc = "idle"
    /\ lastOp' = [op |-> "Start", arg |-> Nil]
    /\ prevCall' = NextPrevCall
    /\ \E err \in Answers :
         /\ calls' = SharedLog(stopPc) \o <<[op |-> "NewEnvClient", err |-> err]>>
         /\ client' = IF err # Nil THEN NoClient ELSE Client
         /\ IF err # Nil
            THEN /\ result' = Returned("Start", Ref(Errorf("creating env client", err[1])))
                 /\ startPc' = "idle"
                 /\ stepState' = Runner
            ELSE /\ result' = NoResult
                 /\ startPc' = "pull"
                 /\ stepState' = [Runner EXCEPT !.client = Client]
    /\ UNCHANGED <<DefaultContainerName, name, image, ports, env, exposedPorts,
                   portBindings, opts, id, stopPc, createdOnce, startedOnce, passedPorts, createdId>>

\* a pull step that goes on to the create step after a failed pull
StartImagePull_NoReturn ==
    /\ startPc = "pull"
    /\ \E err \in Answers :
         calls' = Append(calls, [op |-> "ImagePull", image |-> image, err |-> err])
    /\ result' = result
    /\ startPc' = "create"
    /\ UNCHANGED <<DefaultContainerName, fields, stopPc, lastOp, stepState,
                   createdOnce, startedOnce, passedPorts, createdId, prevCall>>

\* e.client.ImagePull(ctx, e.image, ...)
StartImagePull ==
    /\ startPc = "pull"
    /\ \E err \in Answers :
         /\ calls' = Append(calls, [op |-> "ImagePull", image |-> image, err |-> err])
         /\ IF err # Nil
            THEN /\ result' = Returned("Start", Ref(Errorf("pulling image", err[1])))
                 /\ startPc' = "idle"
            ELSE /\ result' = result
                 /\ startPc' = "create"
    /\ UNCHANGED <<DefaultContainerName, fields, stopPc, lastOp, stepState,
                   createdOnce, startedOnce, passedPorts, createdId, prevCall>>

\* a create request that leaves the exposed ports out
CreateRequest_NoPorts ==
    [op |-> "ContainerCreate",
     Config |-> [Image |-> image, ExposedPorts |-> {}, Env |-> <<>>],
     HostConfig |-> [PortBindings |-> portBindings],
     name |-> name]

\* the request built for e.client.ContainerCreate: the Config carries Image and
\* ExposedPorts only (its Env stays the zero value), the HostConfig PortBindings only
CreateRequest ==
    [op |-> "ContainerCreate",
     Config |-> [Image |-> image, ExposedPorts |-> exposedPorts, Env |-> <<>>],
     HostConfig |-> [PortBindings |-> portBindings],
     name |-> name]

WithAnswer(request, err) == [x \in DOMAIN request \cup {"err"} |->
                                IF x = "err" THEN err ELSE request[x]]

\* resp.ID of the answer to the create request (empty with an error)
WithResp(request, respID) == [x \in DOMAIN request \cup {"respID"} |->
                                 IF x = "respID" THEN respID ELSE request[x]]

StartContainerCreate ==
    /\ startPc = "create"
    /\ \E err \in Answers :
         IF err # Nil
         THEN /\ calls' = Append(calls, WithResp(WithAnswer(CreateRequest, err), ""))
              /\ result' = Returned("Start", Ref(Errorf("creating container", err[1])))
              /\ startPc' = "idle"
              /\ UNCHANGED <<id, stepState, createdOnce, createdId>>
         ELSE \E respID \in ContainerIds :
                 /\ calls' = Append(calls, WithResp(WithAnswer(CreateRequest, err), respID))
                 /\ createdId' = respID
                 /\ id' = respID
                 /\ result' = result
                 /\ startPc' = "start"
                 /\ stepState' = [Runner EXCEPT !.id = respID]
                 /\ createdOnce' = TRUE
    /\ UNCHANGED <<DefaultContainerName, name, image, ports, env, exposedPorts,
                   portBindings, opts, client, stopPc, lastOp, startedOnce, passedPorts, prevCall>>

\* a start step that forgets the identifier when the start request fails
StartContainerStart_ClearsId ==
    /\ startPc = "start"
    /\ startPc' = "idle"
    /\ \E err \in Answers :
         /\ calls' = Append(calls, [op |-> "ContainerStart", id |-> id, err |-> err])
         /\ IF err # Nil
            THEN /\ result' = Returned("Start", Ref(Errorf("starting container", err[1])))
                 /\ id' = ""
                 /\ UNCHANGED startedOnce
            ELSE /\ result' = Returned("Start", Nil)
                 /\ id' = id
                 /\ startedOnce' = TRUE
    /\ UNCHANGED <<DefaultContainerName, name, image, ports, env, exposedPorts,
                   portBindings, opts, client, stopPc, lastOp, stepState,
                   createdOnce, passedPorts, createdId, prevCall>>

\* e.client.ContainerStart(ctx, e.id, ...)
StartContainerStart ==
    /\ startPc = "start"
    /\ startPc' = "idle"
    /\ \E err \in Answers :
         /\ calls' = Append(calls, [op |-> "ContainerStart", id |-> id, err |-> err])
         /\ IF err # Nil
            THEN /\ result' = Returned("Start", Ref(Errorf("starting container", err[1])))
                 /\ UNCHANGED startedOnce
            ELSE /\ result' = Returned("Start", Nil)
                 /\ startedOnce' = TRUE
    /\ UNCHANGED <<DefaultContainerName, fields, stopPc, lastOp, stepState,
                   createdOnce, passedPorts, createdId, prevCall>>

---------------------------------------------------------------------------
(* Stop *)

\* a guard that tests the client handle instead of the identifier
NoContainerId_ClientTest == client = NoClient

\* a guard that also rejects a missing client
NoContainerId_OrNoClient == Len(id) = 0 \/ client = NoClient

\* if len(e.id) == 0
NoContainerId == Len(id) = 0

\* a Stop that waits until no Start is in progress, as under a lock held by Start
StopContainerStop_Locked ==
    /\ startPc = "idle"
    /\ stopPc = "idle"
    /\ lastOp' = [op |-> "Stop", arg |-> Nil]
    /\ prevCall' = NextPrevCall
    /\ stepState' = Runner
    /\ IF NoContainerId
       THEN /\ result' = Returned("Stop", Ref(ErrNoContainerId))
            /\ calls' = <<>>
            /\ stopPc' = "idle"
       ELSE IF client = NoClient
       THEN /\ result' = Panicked("Stop")
            /\ calls' = <<>>
            /\ stopPc' = "idle"
       ELSE \E err \in Answers :
            /\ calls' = <<[op |-> "ContainerStop", id |-> id, timeout |-> Minute,
                           err |-> err]>>
            /\ IF err # Nil
               THEN /\ result' = Returned("Stop", Ref(Errorf("stopping container", err[1])))
                    /\ stopPc' = "idle"
               ELSE /\ result' = NoResult
                    /\ stopPc' = "finalize"
    /\ UNCHANGED <<DefaultContainerName, fields, startPc, createdOnce, startedOnce,
                   passedPorts, createdId>>

\* the guard on e.id, then e.client.ContainerStop(ctx, e.id, &timeout); a call
\* through a nil client panics inside the client library before any request is sent
StopContainerStop ==
    /\ stopPc = "idle"
    /\ lastOp' = [op |-> "Stop", arg |-> Nil]
    /\ prevCall' = NextPrevCall
    /\ stepState' = Runner
    /\ IF NoContainerId
       THEN /\ result' = Returned("Stop", Ref(ErrNoContainerId))
            /\ calls' = SharedLog(startPc)
            /\ stopPc' = "idle"
       ELSE IF client = NoClient
       THEN /\ result' = Panicked("Stop")
            /\ calls' = SharedLog(startPc)
            /\ stopPc' = "idle"
       ELSE \E err \in Answers :
            /\ calls' = SharedLog(startPc) \o
                           <<[op |-> "ContainerStop", id |-> id, timeout |-> Minute,
                              err |-> err]>>
            /\ IF err # Nil
               THEN /\ result' = Returned("Stop", Ref(Errorf("stopping container", err[1])))
                    /\ stopPc' = "idle"
               ELSE /\ result' = NoResult
                    /\ stopPc' = "finalize"
    /\ UNCHANGED <<DefaultContainerName, fields, startPc, createdOnce, startedOnce,
                   passedPorts, createdId>>

\* if e.opts.RemoveOnFinalization { e.client.ContainerRemove(ctx, e.id, ...) }; the
\* read through a nil e.opts panics
StopContainerRemove ==
    /\ stopPc = "finalize"
    /\ stopPc' = "idle"
    /\ IF opts = Nil
       THEN /\ result' = Panicked("Stop")
            /\ calls' = calls
       ELSE IF opts[1].RemoveOnFinalization
       THEN \E err \in Answers :
            /\ calls' = Append(calls, [op |-> "ContainerRemove", id |-> id, err |-> err])
            /\ result' = Returned("Stop", IF err # Nil
                                          THEN Ref(Errorf("removing container", err[1]))
                                          ELSE Nil)
       ELSE /\ result' = Returned("Stop", Nil)
            /\ calls' = calls
    /\ UNCHANGED <<DefaultContainerName, fields, startPc, lastOp, stepState,
                   createdOnce, startedOnce, passedPorts, createdId, prevCall>>

---------------------------------------------------------------------------
(* One caller: an operation begins only when no call is in progress *)
Next ==
    \/ Idle /\ \E ps \in SmallPortArgs : WithPorts(ps)
    \/ Idle /\ \E img \in SmallImageNames : WithImage(img)
    \/ Idle /\ \E n \in SmallNames : WithName(n)
    \/ Idle /\ \E key \in SmallEnvKeys, val \in EnvVals : WithEnvironmentVariable(key, val)
    \/ Idle /\ \E o \in OptionArgs : WithOptions(o)
    \/ stopPc = "idle" /\ StartNewEnvClient
    \/ StartImagePull
    \/ StartContainerCreate
    \/ StartContainerStart
    \/ startPc = "idle" /\ StopContainerStop
    \/ StopContainerRemove

Spec == Init /\ [][Next]_vars

(* The builder alone, over the larger input sets *)
NextBuilder ==
    \/ \E ps \in PortArgs : WithPorts(ps)
    \/ \E img \in ImageNames \cup {image} : WithImage(img)
    \/ \E n \in Names : WithName(n)
    \/ \E key \in EnvKeys, val \in EnvVals : WithEnvironmentVariable(key, val)
    \/ \E o \in OptionArgs : WithOptions(o)

SpecBuilder == Init /\ [][NextBuilder]_vars

(* Two callers on one runner: a Start and a Stop begin whatever the position of
   the other, since no method takes a lock; their steps interleave between the
   engine calls *)
NextConcurrent ==
    \/ Idle /\ \E o \in OptionArgs : WithOptions(o)
    \/ Len(SharedLog(stopPc)) < MaxLog /\ StartNewEnvClient
    \/ StartImagePull
    \/ StartContainerCreate
    \/ StartContainerStart
    \/ Len(SharedLog(startPc)) < MaxLog /\ StopContainerStop
    \/ StopContainerRemove

SpecConcurrent == Init /\ [][NextConcurrent]_vars
---------------------------------------------------------------------------
(* Properties *)

Ops(log) == [k \in 1..Len(log) |-> log[k].op]
Count(log, op) == Cardinality({k \in 1..Len(log) : log[k].op = op})
LastCall == calls[Len(calls)]
StopReturned == lastOp.op = "Stop" /\ stopPc = "idle"
StartReturned == lastOp.op = "Start" /\ startPc = "idle"

\* C1 as stated: whenever no Start call has yet returned success, a Stop call
\* returns ErrNoContainerId and issues no engine call.
C1_StopBeforeSuccessfulStart ==
    (lastOp.op = "Stop" /\ ~startedOnce) =>
        /\ stopPc = "idle"
        /\ calls = <<>>
        /\ result = Returned("Stop", Ref(ErrNoContainerId))

\* C1 amended: whenever no create request of a Start call has yet succeeded, a
\* Stop call returns ErrNoContainerId and issues no engine call; this covers
\* Start calls that failed at client acquisition, at the pull or at the create.
C1_StopBeforeCreate ==
    (lastOp.op = "Stop" /\ ~createdOnce) =>
        /\ stopPc = "idle"
        /\ calls = <<>>
        /\ result = Returned("Stop", Ref(ErrNoContainerId))

\* a Stop that met the guard after a Start had acquired a client and then failed
C1_Witness ==
    /\ StopReturned
    /\ ~createdOnce
    /\ client = Client
    /\ result.err = Ref(ErrNoContainerId)

\* C2: a Stop call past the identifier guard issues the stop request first and
\* exactly once, and the remove request (once, after it) if and only if the stop
\* request succeeded and the options request removal.
C2_StopThenRemove ==
    (StopReturned /\ id # "") =>
        /\ calls # <<>>
        /\ calls[1].op = "ContainerStop"
        /\ Count(calls, "ContainerStop") = 1
        /\ Count(calls, "ContainerRemove") <= 1
        /\ Count(calls, "ContainerRemove") = 1 <=>
              (calls[1].err = Nil /\ opts # Nil /\ opts[1].RemoveOnFinalization)
        /\ result.kind = "ok" =>
              Ops(calls) = IF opts = Ref([RemoveOnFinalization |-> TRUE])
                           THEN <<"ContainerStop", "ContainerRemove">>
                           ELSE <<"ContainerStop">>

\* C3: the steps of a Start call are issued in the order client, pull, create,
\* start, each at most once and only after every earlier one succeeded; a failing
\* step is the last call made, and Start returns its error.
StartOrder == <<"NewEnvClient", "ImagePull", "ContainerCreate", "ContainerStart">>
C3_StartSequential ==
    lastOp.op = "Start" =>
        /\ Len(calls) \in 1..4
        /\ Ops(calls) = SubSeq(StartOrder, 1, Len(calls))
        /\ \A k \in 1..(Len(calls) - 1) : calls[k].err = Nil
        /\ startPc # "idle" => LastCall.err = Nil /\ result.kind = "none"
        /\ startPc = "idle" =>
              /\ result.call = "Start"
              /\ result.kind = IF LastCall.err = Nil THEN "ok" ELSE "error"
              /\ result.kind = "ok" => Len(calls) = 4
              /\ result.kind = "error" => result.err[1].wraps = LastCall.err

\* a Start that failed at its fourth step, the container created and left as it is
C3_Witness ==
    /\ StartReturned
    /\ Len(calls) = 4
    /\ LastCall.err # Nil
    /\ result.kind = "error"
    /\ id # ""
\* C4: when Start or Stop returns an error, the runner's fields are those it had
\* after the last step of the call that succeeded (before the call, if the first
\* step failed).
C4_ErrorKeepsState ==
    ((StartReturned \/ StopReturned) /\ result.kind = "error") => Runner = stepState

\* C5 as stated: between calls the stored identifier is non-empty only if some
\* Start call has returned success.
C5_IdOnlyAfterSuccessfulStart ==
    (Idle /\ id # "") => startedOnce

\* C5 amended: the stored identifier is empty until a create request of a Start
\* call has succeeded (so it is empty if no Start call has been made), and it is
\* non-empty only if some create request succeeded; it may be non-empty when no
\* Start call has returned success.
C5_IdOnlyAfterCreate ==
    /\ id \in {""} \cup ContainerIds
    /\ id # "" <=> createdOnce
    /\ startedOnce => createdOnce

\* the identifier is stored, no Start call has returned success
C5_Witness ==
    /\ Idle
    /\ id # ""
    /\ ~startedOnce
    /\ result.call = "Start"
    /\ result.kind = "error"
\* some member of list occurs in str, at some position
Occurs(sub, str) ==
    \E i \in 1..(Len(str) + 1) :
        i + Len(sub) - 1 <= Len(str) /\ SubSeq(str, i, i + Len(sub) - 1) = sub
OccursAny(list, str) == \E sub \in list : Occurs(sub, str)
Lists == {<<>>, <<".io">>, <<"mongo", ".org">>, RegistryExtensionOptions}
Range(seq) == {seq[k] : k \in 1..Len(seq)}

PortText == [p \in PortNumbers |-> IF p = 80 THEN "80" ELSE "27017"]

\* C7: after any WithPorts calls the exposed-port set and the port-binding map
\* have exactly one key per distinct port passed so far, and port p is bound to
\* the single entry (127.0.0.1, p).
C7_WithPorts ==
    /\ exposedPorts = {PortText[p] : p \in passedPorts}
    /\ DOMAIN portBindings = {PortText[p] : p \in passedPorts}
    /\ Cardinality(exposedPorts) = Cardinality(passedPorts)
    /\ Cardinality(DOMAIN portBindings) = Cardinality(passedPorts)
    /\ \A p \in passedPorts :
          portBindings[PortText[p]] = <<[HostIP |-> "127.0.0.1", HostPort |-> PortText[p]]>>

\* a later call with one port kept the port of an earlier call
C7_Witness ==
    /\ lastOp.op = "WithPorts"
    /\ Len(lastOp.arg) = 1
    /\ Len(ports) = 2
    /\ Cardinality(passedPorts) = 2

\* C8: WithName(x) sets the name to x if x is not empty and to the process-wide
\* default otherwise; the default is not empty and never changes; only WithName
\* changes the name, and the create request of Start carries the name.
C8_WithName ==
    /\ [](/\ lastOp.op = "WithName" =>
                name = IF lastOp.arg = "" THEN DefaultContainerName ELSE lastOp.arg
          /\ DefaultContainerName # ""
          /\ (lastOp.op = "Start" /\ Len(calls) >= 3) => calls[3].name = name)
    /\ [][/\ DefaultContainerName' = DefaultContainerName
          /\ name' # name => lastOp'.op = "WithName"]_vars

\* a Start issued its create request under the default name
C8_Witness ==
    /\ lastOp.op = "Start"
    /\ Len(calls) >= 3
    /\ calls[3].name = DefaultContainerName

\* C9: the create request of Start carries the accumulated environment entries.
C9_EnvApplied ==
    \A k \in 1..Len(calls) :
        calls[k].op = "ContainerCreate" => calls[k].Config.Env = env

\* errors.Is(err, target)
RECURSIVE Is(_, _)
Is(err, target) == err = target \/ (err.wraps # Nil /\ Is(err.wraps[1], target))

StageLabel(op) ==
    CASE op = "NewEnvClient" -> "creating env client"
      [] op = "ImagePull" -> "pulling image"
      [] op = "ContainerCreate" -> "creating container"
      [] op = "ContainerStart" -> "starting container"
      [] op = "ContainerStop" -> "stopping container"
      [] op = "ContainerRemove" -> "removing container"

\* C10: an error returned by Start or Stop is either ErrNoContainerId (from Stop,
\* with the identifier empty, wrapping nothing) or the error of the failed step
\* wrapped under that step's label; a wrapped error is not ErrNoContainerId.
C10_Errors ==
    result.kind = "error" =>
        \/ /\ result.err = Ref(ErrNoContainerId)
           /\ result.call = "Stop"
           /\ id = ""
           /\ calls = <<>>
           /\ ErrNoContainerId.wraps = Nil
        \/ /\ calls # <<>>
           /\ LastCall.err # Nil
           /\ result.err[1].wraps = LastCall.err
           /\ result.err[1].msg = StageLabel(LastCall.op) \o ": " \o LastCall.err[1].msg
           /\ Is(result.err[1], LastCall.err[1])
           /\ ~Is(result.err[1], ErrNoContainerId)

\* Stop returned the wrapped error of the remove request
C10_Witness ==
    /\ StopReturned
    /\ result.kind = "error"
    /\ Len(calls) = 2
    /\ LastCall.op = "ContainerRemove"
RemovalRequested == opts # Nil /\ opts[1].RemoveOnFinalization
AfterStartFailedAtStart == prevCall.call = "Start" /\ prevCall.outcome = "ContainerStart"
AfterStopPastGuard ==
    prevCall.call = "Stop" /\ prevCall.outcome = "answered"

\* C11: a Start that fails at its fourth step returns with the identifier of the
\* create answer stored, and the Stop call that follows it does not return
\* ErrNoContainerId: it issues the stop request for that identifier and, if the
\* stop succeeded and removal is requested, the remove request.
C11_StopAfterFailedStart ==
    /\ (StartReturned /\ Len(calls) = 4 /\ LastCall.err # Nil) =>
          id # "" /\ id = calls[3].respID
    /\ (lastOp.op = "Stop" /\ AfterStartFailedAtStart) =>
          /\ id # "" /\ id = prevCall.id
          /\ result.err # Ref(ErrNoContainerId)
          /\ calls # <<>>
          /\ calls[1].op = "ContainerStop" /\ calls[1].id = prevCall.id
          /\ stopPc = "idle" =>
                /\ Len(calls) = IF calls[1].err = Nil /\ RemovalRequested THEN 2 ELSE 1
                /\ Len(calls) = 2 =>
                      calls[2].op = "ContainerRemove" /\ calls[2].id = prevCall.id

\* the container that was created and not started was stopped and removed
C11_Witness ==
    /\ StopReturned
    /\ AfterStartFailedAtStart
    /\ ~startedOnce
    /\ Len(calls) = 2
    /\ result.kind = "ok"

\* C12 as stated: no step of Stop changes the stored identifier; a Stop call that
\* follows a Stop which returned past the guard finds the same non-empty
\* identifier, does not return ErrNoContainerId, issues the stop request for it
\* again, and returns what the engine answered.
C12_StopKeepsId ==
    /\ [][lastOp'.op = "Stop" => id' = id]_vars
    /\ []((lastOp.op = "Stop" /\ AfterStopPastGuard) =>
            /\ id # "" /\ id = prevCall.id
            /\ result.err # Ref(ErrNoContainerId)
            /\ calls # <<>>
            /\ calls[1].op = "ContainerStop" /\ calls[1].id = prevCall.id
            /\ stopPc = "idle" =>
                  result.kind = IF LastCall.err = Nil THEN "ok" ELSE "error")

\* C13: with no identifier stored Stop returns ErrNoContainerId at once, with no
\* call made and no field changed, whatever the client and the options are; it
\* returns that error in no other state, and returns no error of its own when an
\* identifier is stored.
C13_StopGuard ==
    /\ (lastOp.op = "Stop" /\ id = "") =>
          /\ stopPc = "idle"
          /\ calls = <<>>
          /\ result = Returned("Stop", Ref(ErrNoContainerId))
          /\ Runner = stepState
    /\ (lastOp.op = "Stop" /\ id # "") =>
          /\ result.err # Ref(ErrNoContainerId)
          /\ result.kind = "error" => calls # <<>>

\* the guard answered with neither a client nor options in the runner
C13_Witness ==
    /\ StopReturned
    /\ id = ""
    /\ client = NoClient
    /\ opts = Nil
    /\ result.err = Ref(ErrNoContainerId)

\* C14: the create request of Start carries the image, the exposed ports, the
\* port bindings and the name of the runner; when it succeeds the stored
\* identifier is the one the engine answered, the start request targets it, and
\* so do the stop and remove requests of a later Stop: the stored identifier is
\* always that of the latest successful create.
C14_Targets ==
    /\ (lastOp.op = "Start" /\ Len(calls) >= 3) =>
          /\ calls[3].Config.Image = image
          /\ calls[3].Config.ExposedPorts = exposedPorts
          /\ calls[3].HostConfig.PortBindings = portBindings
          /\ calls[3].name = name
          /\ <<image, exposedPorts, portBindings, name>> =
                <<stepState.image, stepState.exposedPorts, stepState.portBindings,
                  stepState.name>>
          /\ calls[3].err = Nil => id = calls[3].respID
          /\ Len(calls) = 4 => calls[4].id = calls[3].respID
    /\ id = createdId
    /\ lastOp.op = "Stop" => \A k \in 1..Len(calls) : calls[k].id = createdId

\* a Start that succeeded with an image, a port and a name configured
C14_Witness ==
    /\ StartReturned
    /\ result.kind = "ok"
    /\ calls[3].Config.Image = "docker.io/library/mongo"
    /\ calls[3].Config.ExposedPorts = {"27017"}
    /\ calls[3].name = "mongo"
    /\ calls[4].id = id

BuilderOps == {"WithPorts", "WithImage", "WithName", "WithEnvironmentVariable",
               "WithOptions"}
BuilderFrame ==
    /\ lastOp'.op \in BuilderOps =>
          /\ calls' = <<>>
          /\ UNCHANGED <<id, client, startPc, stopPc>>
    /\ lastOp'.op = "WithPorts" => UNCHANGED <<name, image, env, opts>>
    /\ lastOp'.op = "WithImage" =>
          UNCHANGED <<name, ports, exposedPorts, portBindings, env, opts>>
    /\ lastOp'.op = "WithName" =>
          UNCHANGED <<image, ports, exposedPorts, portBindings, env, opts>>
    /\ lastOp'.op = "WithEnvironmentVariable" =>
          /\ env' = Append(env, lastOp'.arg[1] \o "=" \o lastOp'.arg[2])
          /\ UNCHANGED <<name, image, ports, exposedPorts, portBindings, opts>>
    /\ lastOp'.op = "WithOptions" =>
          /\ opts' = lastOp'.arg
          /\ UNCHANGED <<name, image, ports, exposedPorts, portBindings, env>>

\* C15: a builder call makes no call to the engine, leaves the identifier and the
\* client as they are and changes the fields of its own setter only;
\* WithEnvironmentVariable appends the one entry KEY=VALUE, WithOptions stores
\* its argument as the options.
C15_BuilderFrame == [][BuilderFrame]_vars

\* a second environment entry appended on a runner that holds a started container
C15_Witness ==
    /\ lastOp.op = "WithEnvironmentVariable"
    /\ Len(env) = 2
    /\ id # ""
    /\ client = Client
    /\ startedOnce

EngineOps == Range(StartOrder) \cup {"ContainerStop", "ContainerRemove"}

\* C16 as stated: one call issues each of its engine operations at most once, and
\* a Start or Stop call whose requests were all answered has returned, with
\* success or with an error.
C16_NoRetryAndReturns ==
    /\ \A op \in EngineOps : Count(calls, op) <= 1
    /\ (StartReturned \/ StopReturned) => result.kind \in {"ok", "error"}

SuccessfulCreate(k) == calls[k].op = "ContainerCreate" /\ calls[k].err = Nil
LatestCreate(i, k) ==
    /\ i < k
    /\ SuccessfulCreate(i)
    /\ \A j \in (i + 1)..(k - 1) : ~SuccessfulCreate(j)

\* C17: nothing keeps a Stop from beginning while a Start is in progress, nor a
\* Start while a Stop is; Start has stored the identifier of its create answer
\* before it issues its start request, so a Stop beginning there passes the
\* guard, and the start request that follows targets that identifier whatever a
\* Stop did to the container in between.
C17_NoLocking ==
    /\ stopPc = "idle" => ENABLED StopContainerStop
    /\ startPc = "idle" => ENABLED StartNewEnvClient
    /\ startPc = "start" => id # "" /\ ~NoContainerId
    /\ \A k \in 1..Len(calls) : calls[k].op = "ContainerStart" =>
          \E i \in 1..Len(calls) : LatestCreate(i, k) /\ calls[k].id = calls[i].respID

\* a Stop that began after the create of a Start, stopped and removed the
\* container with success, and the start request of that Start sent after it
C17_Witness ==
    /\ Ops(calls) = <<"NewEnvClient", "ImagePull", "ContainerCreate",
                      "ContainerStop", "ContainerRemove", "ContainerStart">>
    /\ calls[4].err = Nil /\ calls[5].err = Nil
    /\ calls[4].id = calls[3].respID
    /\ calls[5].id = calls[3].respID
    /\ calls[6].id = calls[3].respID
    /\ startPc = "idle" /\ stopPc = "idle"

\* C18 as stated: whenever an identifier is stored the runner holds a usable
\* client, so a Stop that passed the guard has sent its stop request.
C18_IdImpliesClient ==
    /\ id # "" => client = Client
    /\ (StopReturned /\ id # "") => calls # <<>> /\ calls[1].op = "ContainerStop"

\* C19 as stated: the runner always holds an options value, and a Stop whose
\* stop request succeeded returns success or the removing-container error.
C19_OptionsReadable ==
    /\ opts # Nil
    /\ (StopReturned /\ calls # <<>> /\ calls[1].err = Nil) =>
          \/ result = Returned("Stop", Nil)
          \/ /\ result.kind = "error"
             /\ result.err[1].msg = "removing container: " \o result.err[1].wraps[1].msg

\* C20: WithImage called with the image the runner stores, once a WithImage has
\* stored one, stores that same image again.
C20_WithImageIdempotent ==
    [][(lastOp'.op = "WithImage" /\ image # "" /\ lastOp'.arg = image) =>
          image' = image]_vars

\* the prefixed form of a name given back to WithImage
C20_Witness ==
    /\ lastOp = [op |-> "WithImage", arg |-> "docker.io/library/netcat"]
    /\ image = "docker.io/library/netcat"
====
